---- MODULE Spec2Model ----
(***************************************************************************)
(* A model of avocado.core.job.Job (src/avocado/core/job.py): the          *)
(* constructor, setup(), run() with its guarded region and finalizer,      *)
(* run_tests(), cleanup() and the update of the <base_dir>/latest link.    *)
(*                                                                         *)
(* One Job object lives in the process JobPid.  Every call the Job makes   *)
(* into a collaborator (hook dispatchers, suites, the filesystem) is a     *)
(* step of its own, whose result (a return value or a raised exception)    *)
(* is chosen nondeterministically.                                         *)
(***************************************************************************)
EXTENDS Integers, Sequences, FiniteSets, TLC

\* ------------------------------------------------------------------ bounds
MaxSuites == 2
MaxTags == 1
MaxRuns == 2
MaxProcs == 2
MaxTick == 1

\* --------------------------------------------------------------- constants
\* avocado.core.exit_codes (bit flags, combined by bitwise-OR)
AVOCADO_ALL_OK == 0
AVOCADO_TESTS_FAIL == 1
AVOCADO_JOB_FAIL == 2
AVOCADO_FAIL == 4
AVOCADO_JOB_INTERRUPTED == 8

\* the unset value of tmpdir, logdir, logfile, result, _base_tmpdir
None == "None"
\* the unset value of time_start, time_end, time_elapsed
Unset == -1

\* the outcome tags a suite's run() may report
Tags == {"PASS", "FAIL", "ERROR", "INTERRUPTED", "CANCEL", "SKIP"}
\* the statuses a JobBaseException subclass carries
ExcStatuses == {"FAIL", "ERROR", "INTERRUPTED"}

SuiteNames == {"a", "b"}
SuiteSizes == {0, 1}

\* ----------------------------------------------------------------- helpers
RECURSIVE BitOr(_, _)
\* Python's a | b on non-negative integers
BitOr(a, b) ==
    IF a = 0 THEN b
    ELSE IF b = 0 THEN a
    ELSE (IF a % 2 = 1 \/ b % 2 = 1 THEN 1 ELSE 0) + 2 * BitOr(a \div 2, b \div 2)

\* Python's (code & bit) != 0 for a single-bit flag
HasBit(code, bit) == (code \div bit) % 2 = 1


RECURSIVE SumSizes(_)
SumSizes(suites) ==
    IF suites = <<>> THEN 0 ELSE Head(suites).size + SumSizes(Tail(suites))

\* Job.size: sum([suite.size for suite in self.test_suites])
Size(suites) == SumSizes(suites)

\* all_names.count(name)
NameCount(suites, name) == Cardinality({i \in 1..Len(suites) : suites[i].name = name})

\* count > 2 instead of count > 1
DuplicateNames_Mutant(suites) ==
    {suites[i].name : i \in {j \in 1..Len(suites) : NameCount(suites, suites[j].name) > 2}}

\* Job._check_test_suite_name_uniqueness: the set duplicate_names
DuplicateNames(suites) ==
    {suites[i].name : i \in {j \in 1..Len(suites) : NameCount(suites, suites[j].name) > 1}}

\* ------------------------------------------------------------- exceptions
NoExc == [kind |-> "none", status |-> ""]
JobBaseException(st) == [kind |-> "JobBaseException", status |-> st]
OptionValidationError == [kind |-> "OptionValidationError", status |-> ""]
OtherException == [kind |-> "Exception", status |-> ""]
UnboundLocalError == [kind |-> "UnboundLocalError", status |-> ""]
AssertionError == [kind |-> "AssertionError", status |-> ""]
OSError == [kind |-> "OSError", status |-> ""]
TypeError == [kind |-> "TypeError", status |-> ""]
JobTestSuiteDuplicateNameError == [kind |-> "JobTestSuiteDuplicateNameError", status |-> "ERROR"]

\* what a hook, a dispatcher or a suite may raise (subclasses of Exception)
Raisable == {JobBaseException(st) : st \in ExcStatuses}
            \cup {OptionValidationError, OtherException}
\* what a step of run()'s finalizer may raise: no except clause tells these
\* exceptions apart
FinRaisable == {OtherException}

\* ------------------------------------------------------------- filesystem
\* the process that owns the Job object of this model
JobPid == 1
Pids == 1..MaxProcs

\* os.path.basename(self.logdir) of the job of process p; 0 is an earlier job
Basename(p) == "job" \o ToString(p)
\* "latest.%s" % os.getpid()
ProcLatestName(p) == "latest." \o ToString(p)

Absent == [kind |-> "absent", target |-> ""]
Symlink(t) == [kind |-> "symlink", target |-> t]
RegularFile == [kind |-> "file", target |-> ""]
Directory == [kind |-> "dir", target |-> ""]

VARIABLES
    args,           \* the arguments of the pending Job(config, test_suites) call
    jpc,            \* where the Job object is: not constructed, idle, or inside a method
    test_suites,    \* self.test_suites
    config,         \* self.config (the keys the job reads)
    status,         \* self.status
    exitcode,       \* self.exitcode
    time_start,     \* self.time_start
    time_end,       \* self.time_end
    time_elapsed,   \* self.time_elapsed
    logdir,         \* self.logdir
    logfile,        \* self.logfile
    tmpdir,         \* self.tmpdir
    base_tmpdir,    \* self._base_tmpdir
    keep_tmpdir,    \* self.__keep_tmpdir
    result,         \* self.result
    tests_total,    \* self.result.tests_total
    logging,        \* whether __start_job_logging installed its handlers
    clock,          \* time.monotonic()
    bound,          \* whether run()'s local pre_post_dispatcher is bound
    exc,            \* the exception in flight in run()'s guarded region
    handled,        \* the exception run()'s except clauses handled in this run
    summary,        \* run_tests' local summary
    idx,            \* run_tests' position in self.test_suites
    retval,         \* <<v>> when run()'s return statement has evaluated v, else <<>>
    outcome,        \* how the last method call ended
    calls,          \* what the current run() invoked and handled, in order
    reported,       \* the tag sets the suites returned to the current run()
    entry,          \* status and exitcode when the current run() was entered
    runs,           \* how many times run() passed its precondition
    budget,         \* how many times the embedder of this scenario enters run()
    latest,         \* the entry at <base_dir>/latest
    staging,        \* the entry at <base_dir>/latest.<pid>, per process
    paths,          \* the other existing paths
    idfile,         \* the content of <logdir>/id
    lpc             \* where each process is in _update_latest_link

jobvars == <<test_suites, config, status, exitcode, time_start, time_end,
             time_elapsed, logdir, logfile, tmpdir, base_tmpdir, keep_tmpdir,
             result, tests_total, logging>>
runvars == <<bound, exc, handled, summary, idx, retval, calls, reported, entry, runs>>
fsvars == <<latest, staging, paths, idfile>>
vars == <<args, budget, jpc, jobvars, clock, runvars, outcome, fsvars, lpc>>

\* os.path.exists(path): follows a symbolic link to its target
Exists(ent) ==
    \/ ent.kind \in {"file", "dir"}
    \/ ent.kind = "symlink" /\ ent.target \in paths

\* os.path.islink(path)
IsLink(ent) == ent.kind = "symlink"

\* ------------------------------------------------------------------ inputs
Suite(n, sz) == [name |-> n, size |-> sz]
AllSuites == {Suite(n, sz) : n \in SuiteNames, sz \in SuiteSizes}

RECURSIVE SeqsUpTo(_, _)
SeqsUpTo(S, n) ==
    IF n = 0 THEN {<<>>}
    ELSE LET shorter == SeqsUpTo(S, n - 1)
         IN shorter \cup {Append(q, x) : q \in {r \in shorter : Len(r) = n - 1}, x \in S}

SuiteLists == SeqsUpTo(AllSuites, MaxSuites)

Config(dry, keep, cat) == [dry_run |-> dry, keep_tmp |-> keep, category |-> cat,
                           results_dir |-> "results"]
DefaultConfig == Config(FALSE, FALSE, None)
Configs == {Config(dry, keep, cat) : dry \in BOOLEAN, keep \in BOOLEAN,
                                     cat \in {None, "safe", "un/safe"}}

\* the tag sets a suite's run may return
TagSets == {T \in SUBSET Tags : Cardinality(T) <= MaxTags}

\* ------------------------------------------------------------------- Init
InitJob ==
    /\ jpc = "new"
    /\ test_suites = <<>>
    /\ config = DefaultConfig
    /\ status = None
    /\ exitcode = AVOCADO_ALL_OK
    /\ time_start = Unset
    /\ time_end = Unset
    /\ time_elapsed = Unset
    /\ logdir = None
    /\ logfile = None
    /\ tmpdir = None
    /\ base_tmpdir = None
    /\ keep_tmpdir = TRUE
    /\ result = None
    /\ tests_total = 0
    /\ logging = FALSE
    /\ clock = 0
    /\ bound = FALSE
    /\ exc = NoExc
    /\ handled = NoExc
    /\ summary = {}
    /\ idx = 0
    /\ retval = <<>>
    /\ outcome = [op |-> "none", result |-> "none", exc |-> NoExc]
    /\ calls = <<>>
    /\ reported = <<>>
    /\ entry = [status |-> None, exitcode |-> AVOCADO_ALL_OK]
    /\ runs = 0

\* the base directory holds an earlier job's results and its latest link
InitFsPlain ==
    /\ latest = Symlink(Basename(0))
    /\ staging = [p \in Pids |-> Absent]
    /\ paths = {Basename(0)}
    /\ idfile = None

\* the base directory as earlier jobs may have left it: without a latest
\* link, and with a staging link of a process that had this pid
InitFsAny ==
    /\ latest \in {Absent, Symlink(Basename(0))}
    /\ staging \in {[p \in Pids |-> IF p = JobPid THEN e ELSE Absent] :
                       e \in {Absent, Symlink(Basename(0))}}
    /\ paths = {Basename(0)}
    /\ idfile = None

\* the suite lists of the scenarios that enter run() more than once
ReentrySuites == {<<>>, <<Suite("a", 1)>>}
\* the suite lists of the scenarios that vary the configuration
ConfigSuites == {<<>>, <<Suite("a", 1)>>}

\* The scenarios: every suite list with one run(); a few suite lists with
\* run() entered up to MaxRuns times; every configuration and base
\* directory with a few suite lists and one run().
Init ==
    /\ InitJob
    /\ lpc = [p \in Pids |-> "idle"]
    /\ \/ /\ args \in [config : {DefaultConfig}, test_suites : SuiteLists]
          /\ budget = 1
          /\ InitFsPlain
       \/ /\ args \in [config : {DefaultConfig}, test_suites : ReentrySuites]
          /\ budget = MaxRuns
          /\ InitFsPlain
       \/ /\ args \in [config : Configs, test_suites : ConfigSuites]
          /\ budget = 1
          /\ InitFsAny

\* the methods end by returning or by raising
Returned(op) == [op |-> op, result |-> "returned", exc |-> NoExc]
Raised(op, e) == [op |-> op, result |-> "raised", exc |-> e]
Running(op) == [op |-> op, result |-> "running", exc |-> NoExc]

\* --------------------------------------------------------------- __init__
\* Job.__init__: the suites are attached and their names checked before any
\* other field is assigned; a duplicate name raises and no Job object exists.
Construct ==
    /\ jpc = "new"
    /\ IF DuplicateNames(args.test_suites) # {}
       THEN /\ jpc' = "ctor_failed"
            /\ outcome' = Raised("__init__", JobTestSuiteDuplicateNameError)
            /\ UNCHANGED <<jobvars>>
       ELSE /\ jpc' = "idle"
            /\ outcome' = Returned("__init__")
            /\ test_suites' = args.test_suites
            /\ config' = args.config
            /\ status' = "RUNNING"
            /\ UNCHANGED <<exitcode, time_start, time_end, time_elapsed, logdir,
                           logfile, tmpdir, base_tmpdir, keep_tmpdir, result,
                           tests_total, logging>>
    /\ UNCHANGED <<args, budget, clock, runvars, fsvars, lpc>>

\* ---------------------------------------------------- _update_latest_link
\* Each filesystem call of Job._update_latest_link is one step of process p.

\* os.path.exists(latest) and not os.path.islink(latest): soft_abort
LinkCheck(p) ==
    /\ lpc[p] = "l_check"
    /\ lpc' = [lpc EXCEPT ![p] = IF Exists(latest) /\ ~IsLink(latest)
                                 THEN "l_done" ELSE "l_stale"]
    /\ UNCHANGED <<fsvars>>

\* os.path.exists(proc_latest)
LinkStale(p) ==
    /\ lpc[p] = "l_stale"
    /\ lpc' = [lpc EXCEPT ![p] = IF Exists(staging[p])
                                 THEN "l_unlink_stale" ELSE "l_symlink"]
    /\ UNCHANGED <<fsvars>>

\* os.unlink(proc_latest) of a stale staging link; OSError: soft_abort
LinkUnlinkStale(p) ==
    /\ lpc[p] = "l_unlink_stale"
    /\ \/ /\ staging' = [staging EXCEPT ![p] = Absent]
          /\ lpc' = [lpc EXCEPT ![p] = "l_symlink"]
       \/ /\ lpc' = [lpc EXCEPT ![p] = "l_done"]
          /\ UNCHANGED staging
    /\ UNCHANGED <<latest, paths, idfile>>

\* the arguments swapped: the staging link names itself
LinkSymlink_Mutant(p) ==
    /\ lpc[p] = "l_symlink"
    /\ \/ /\ staging[p].kind = "absent"
          /\ staging' = [staging EXCEPT ![p] = Symlink(ProcLatestName(p))]
          /\ lpc' = [lpc EXCEPT ![p] = "l_rename"]
       \/ /\ lpc' = [lpc EXCEPT ![p] = "l_finally"]
          /\ UNCHANGED staging
    /\ UNCHANGED <<latest, paths, idfile>>

\* os.symlink(basename, proc_latest); fails when proc_latest is there
LinkSymlink(p) ==
    /\ lpc[p] = "l_symlink"
    /\ \/ /\ staging[p].kind = "absent"
          /\ staging' = [staging EXCEPT ![p] = Symlink(Basename(p))]
          /\ lpc' = [lpc EXCEPT ![p] = "l_rename"]
       \/ /\ lpc' = [lpc EXCEPT ![p] = "l_finally"]
          /\ UNCHANGED staging
    /\ UNCHANGED <<latest, paths, idfile>>

\* remove the old link, then move the new one into place (two steps)
LinkRename_Mutant(p) ==
    /\ lpc[p] = "l_rename"
    /\ IF latest.kind # "absent"
       THEN /\ latest' = Absent
            /\ UNCHANGED <<staging, lpc>>
       ELSE /\ latest' = staging[p]
            /\ staging' = [staging EXCEPT ![p] = Absent]
            /\ lpc' = [lpc EXCEPT ![p] = "l_finally"]
    /\ UNCHANGED <<paths, idfile>>

\* os.rename(proc_latest, latest): one atomic replacement of the entry at
\* latest (a directory there makes it fail); OSError: soft_abort
LinkRename(p) ==
    /\ lpc[p] = "l_rename"
    /\ \/ /\ latest.kind # "dir"
          /\ latest' = staging[p]
          /\ staging' = [staging EXCEPT ![p] = Absent]
       \/ UNCHANGED <<latest, staging>>
    /\ lpc' = [lpc EXCEPT ![p] = "l_finally"]
    /\ UNCHANGED <<paths, idfile>>

\* finally: os.path.exists(proc_latest)
LinkFinally(p) ==
    /\ lpc[p] = "l_finally"
    /\ lpc' = [lpc EXCEPT ![p] = IF Exists(staging[p])
                                 THEN "l_unlink_final" ELSE "l_done"]
    /\ UNCHANGED <<fsvars>>

\* finally: os.unlink(proc_latest), outside any try: OSError propagates
LinkUnlinkFinal(p) ==
    /\ lpc[p] = "l_unlink_final"
    /\ \/ /\ staging' = [staging EXCEPT ![p] = Absent]
          /\ lpc' = [lpc EXCEPT ![p] = "l_done"]
       \/ /\ lpc' = [lpc EXCEPT ![p] = "l_raised"]
          /\ UNCHANGED staging
    /\ UNCHANGED <<latest, paths, idfile>>

\* _update_latest_link touches the filesystem only
UpdateLatestLink(p) ==
    /\ \/ LinkCheck(p)
       \/ LinkStale(p)
       \/ LinkUnlinkStale(p)
       \/ LinkSymlink(p)
       \/ LinkRename(p)
       \/ LinkFinally(p)
       \/ LinkUnlinkFinal(p)
    /\ UNCHANGED <<args, budget, jpc, jobvars, clock, runvars, outcome>>

\* ------------------------------------------------------------------ setup
\* Job.unique_id of the job of process p
UniqueId(p) == "id" \o ToString(p)
\* the content _setup_job_results writes: "%s\n" % self.unique_id
IdFileContent(p) == UniqueId(p) \o "\n"
\* astring.string_to_safe_path: path separators become underscores
StringToSafePath(c) == IF c = "un/safe" THEN "un_safe" ELSE c

\* an exception leaves setup()
SetupRaise(e) ==
    /\ jpc' = "idle"
    /\ outcome' = Raised("setup", e)

\* setup(): output.reconfigure and the assertion that tmpdir is unset; in
\* dry-run mode without a results directory a temporary one is configured
Setup ==
    /\ jpc = "idle"
    /\ IF tmpdir # None
       THEN /\ outcome' = Raised("setup", AssertionError)
            /\ UNCHANGED <<jpc, config>>
       ELSE /\ jpc' = "setup_results"
            /\ outcome' = Running("setup")
            /\ config' = IF config.dry_run /\ config.results_dir = None
                         THEN [config EXCEPT !.results_dir = "avocado-dry-run"]
                         ELSE config
    /\ UNCHANGED <<args, budget, test_suites, status, exitcode, time_start, time_end,
                   time_elapsed, logdir, logfile, tmpdir, base_tmpdir, keep_tmpdir,
                   result, tests_total, logging, clock, runvars, fsvars, lpc>>

\* _setup_job_results: data_dir.create_job_logs_dir, then (unless dry-run)
\* the call of _update_latest_link
SetupResults ==
    /\ jpc = "setup_results"
    /\ \/ /\ Basename(JobPid) \notin paths
          /\ logdir' = Basename(JobPid)
          /\ paths' = paths \cup {Basename(JobPid)}
          /\ IF config.dry_run
             THEN jpc' = "setup_idfile" /\ UNCHANGED lpc
             ELSE jpc' = "setup_link" /\ lpc' = [lpc EXCEPT ![JobPid] = "l_check"]
          /\ UNCHANGED outcome
       \/ /\ SetupRaise(OSError)
          /\ UNCHANGED <<logdir, paths, lpc>>
    /\ UNCHANGED <<args, budget, test_suites, config, status, exitcode, time_start,
                   time_end, time_elapsed, logfile, tmpdir, base_tmpdir,
                   keep_tmpdir, result, tests_total, logging, clock, runvars,
                   latest, staging, idfile>>

\* _update_latest_link returns to _setup_job_results, or raises through it
SetupLinkReturn ==
    /\ jpc = "setup_link"
    /\ lpc[JobPid] \in {"l_done", "l_raised"}
    /\ IF lpc[JobPid] = "l_done"
       THEN jpc' = "setup_idfile" /\ UNCHANGED outcome
       ELSE SetupRaise(OSError)
    /\ lpc' = [lpc EXCEPT ![JobPid] = "idle"]
    /\ UNCHANGED <<args, budget, jobvars, clock, runvars, fsvars>>

\* _setup_job_results: self.logfile, then the id file is written and synced
SetupIdFile ==
    /\ jpc = "setup_idfile"
    /\ logfile' = "job.log"
    /\ \/ /\ idfile' = IdFileContent(JobPid)
          /\ jpc' = "setup_logging"
          /\ UNCHANGED outcome
       \/ /\ idfile' \in {idfile, ""}
          /\ SetupRaise(OSError)
    /\ UNCHANGED <<args, budget, test_suites, config, status, exitcode, time_start,
                   time_end, time_elapsed, logdir, tmpdir, base_tmpdir,
                   keep_tmpdir, result, tests_total, logging, clock, runvars,
                   latest, staging, paths, lpc>>

\* a failure to start the logging is swallowed and setup() goes on
SetupLogging_Mutant ==
    /\ jpc = "setup_logging"
    /\ result' = "Result"
    /\ \/ /\ logging' = TRUE
          /\ paths' = paths \cup {"job.log"}
       \/ UNCHANGED <<logging, paths>>
    /\ jpc' = "setup_category"
    /\ UNCHANGED <<args, budget, test_suites, config, status, exitcode, time_start,
                   time_end, time_elapsed, logdir, logfile, tmpdir, base_tmpdir,
                   keep_tmpdir, tests_total, clock, runvars, latest, staging,
                   idfile, lpc, outcome>>

\* setup(): self.result = Result(...); self.__start_job_logging()
SetupLogging ==
    /\ jpc = "setup_logging"
    /\ result' = "Result"
    /\ \/ /\ logging' = TRUE
          /\ paths' = paths \cup {"job.log"}
          /\ jpc' = "setup_category"
          /\ UNCHANGED outcome
       \/ /\ SetupRaise(OSError)
          /\ UNCHANGED <<logging, paths>>
    /\ UNCHANGED <<args, budget, test_suites, config, status, exitcode, time_start,
                   time_end, time_elapsed, logdir, logfile, tmpdir, base_tmpdir,
                   keep_tmpdir, tests_total, clock, runvars, latest, staging,
                   idfile, lpc>>

\* _setup_job_category: no category, or an unsafe name (warning): nothing;
\* else os.mkdir (FileExistsError is passed, any other OSError propagates)
\* and os.symlink (OSError: warning)
SetupCategory ==
    /\ jpc = "setup_category"
    /\ \/ /\ \/ config.category = None
             \/ config.category # StringToSafePath(config.category)
          /\ jpc' = "setup_base_tmp"
          /\ UNCHANGED <<outcome, paths>>
       \/ /\ config.category # None
          /\ config.category = StringToSafePath(config.category)
          /\ \/ /\ paths' = paths \cup {"category", "category/link"}
                /\ jpc' = "setup_base_tmp"
                /\ UNCHANGED outcome
             \/ /\ paths' = paths \cup {"category"}
                /\ jpc' = "setup_base_tmp"
                /\ UNCHANGED outcome
             \/ /\ SetupRaise(OSError)
                /\ UNCHANGED paths
    /\ UNCHANGED <<args, budget, jobvars, clock, runvars, latest, staging, idfile, lpc>>

\* setup(): _base_tmpdir is logdir when keep_tmp is on, else a fresh
\* directory, after whose creation __keep_tmpdir becomes False
SetupBaseTmp ==
    /\ jpc = "setup_base_tmp"
    /\ \/ /\ config.keep_tmp
          /\ base_tmpdir' = logdir
          /\ jpc' = "setup_tmp"
          /\ UNCHANGED <<keep_tmpdir, paths, outcome>>
       \/ /\ ~config.keep_tmp
          /\ base_tmpdir' = "avocado_tmp"
          /\ keep_tmpdir' = FALSE
          /\ paths' = paths \cup {"avocado_tmp"}
          /\ jpc' = "setup_tmp"
          /\ UNCHANGED outcome
       \/ /\ ~config.keep_tmp
          /\ SetupRaise(OSError)
          /\ UNCHANGED <<base_tmpdir, keep_tmpdir, paths>>
    /\ UNCHANGED <<args, budget, test_suites, config, status, exitcode, time_start,
                   time_end, time_elapsed, logdir, logfile, tmpdir, result,
                   tests_total, logging, clock, runvars, latest, staging,
                   idfile, lpc>>

\* setup(): self.tmpdir = tempfile.mkdtemp(dir=self._base_tmpdir), its last
\* statement
SetupTmp ==
    /\ jpc = "setup_tmp"
    /\ \/ /\ tmpdir' = "avocado_job"
          /\ paths' = paths \cup {"avocado_job"}
          /\ jpc' = "idle"
          /\ outcome' = Returned("setup")
       \/ /\ SetupRaise(OSError)
          /\ UNCHANGED <<tmpdir, paths>>
    /\ UNCHANGED <<args, budget, test_suites, config, status, exitcode, time_start,
                   time_end, time_elapsed, logdir, logfile, base_tmpdir,
                   keep_tmpdir, result, tests_total, logging, clock, runvars,
                   latest, staging, idfile, lpc>>

\* -------------------------------------------------------------------- run
\* plain assignment instead of |=
OrFlag_Mutant(code, flag) == flag

\* self.exitcode |= flag
OrFlag(code, flag) == BitOr(code, flag)

\* the flag of the tests, not of the job
EmptyJobCode_Mutant(code) == OrFlag(code, AVOCADO_TESTS_FAIL)

\* run_tests: if not self.test_suites: self.exitcode |= AVOCADO_JOB_FAIL
EmptyJobCode(code) == OrFlag(code, AVOCADO_JOB_FAIL)

\* plain assignment instead of |=
Accumulate_Mutant(sum, T) == T

\* run_tests: summary |= suite.run(self)
Accumulate(sum, T) == sum \cup T

\* the promotion without its test of the current status
Promote_Mutant(st) == "PASS"

\* run_tests: if self.status == 'RUNNING': self.status = 'PASS'
Promote(st) == IF st = "RUNNING" THEN "PASS" ELSE st


\* run_tests: the bits the summary of the suites' tags contributes
SummaryCode(code, s) ==
    LET c1 == IF "INTERRUPTED" \in s THEN OrFlag(code, AVOCADO_JOB_INTERRUPTED) ELSE code
    IN IF "FAIL" \in s \/ "ERROR" \in s THEN OrFlag(c1, AVOCADO_TESTS_FAIL) ELSE c1

\* the crash handler leaves the status alone
HandlerStatus_Mutant(e, st) ==
    IF e.kind = "JobBaseException" THEN e.status ELSE st

\* run()'s except clauses: the status each leaves
HandlerStatus(e, st) ==
    CASE e.kind = "JobBaseException" -> e.status
      [] e.kind = "OptionValidationError" -> st
      [] OTHER -> "ERROR"

\* run()'s except clauses: the exit code each leaves
HandlerCode(e, code) ==
    CASE e.kind = "JobBaseException" -> OrFlag(code, AVOCADO_JOB_FAIL)
      [] e.kind = "OptionValidationError" -> OrFlag(code, AVOCADO_JOB_FAIL)
      [] OTHER -> OrFlag(code, AVOCADO_FAIL)

\* self.time_elapsed = self.time_end - self.time_start
Elapsed(end, start) == end - start

\* the timestamp is sampled at every call
TimeUnset_Mutant(t) == TRUE

\* run(): if self.time_start == -1, if self.time_end == -1
TimeUnset(t) == t = Unset

\* the values a call of time.monotonic() may return: the clock advances
Monotonic == {clock + d : d \in 1..MaxTick}

\* the exception of a finalizer step is swallowed and run() returns
RunRaise_Mutant(e) ==
    /\ jpc' = "idle"
    /\ outcome' = Returned("run")
    /\ UNCHANGED retval

\* an exception leaves run(): the pending return value is dropped
RunRaise(e) ==
    /\ jpc' = "idle"
    /\ outcome' = Raised("run", e)
    /\ retval' = <<>>

\* an exception is raised in the guarded region
RunThrow(e) ==
    /\ exc' = e
    /\ jpc' = "run_except"

\* the assertion is missing
SetupCompleted_Mutant(t) == TRUE

\* run(): assert self.tmpdir is not None
SetupCompleted(t) == t # None

\* run(): the assertion that setup() completed, and time_start
Run ==
    /\ jpc = "idle"
    /\ runs < budget
    /\ IF ~SetupCompleted(tmpdir)
       THEN /\ outcome' = Raised("run", AssertionError)
            /\ UNCHANGED <<jpc, time_start, clock, runvars>>
       ELSE /\ \E t \in Monotonic :
                  IF TimeUnset(time_start)
                  THEN time_start' = t /\ clock' = t
                  ELSE UNCHANGED <<time_start, clock>>
            /\ jpc' = "run_total"
            /\ outcome' = Running("run")
            /\ runs' = runs + 1
            /\ bound' = FALSE
            /\ exc' = NoExc
            /\ handled' = NoExc
            /\ summary' = {}
            /\ idx' = 0
            /\ retval' = <<>>
            /\ calls' = <<>>
            /\ reported' = <<>>
            /\ entry' = [status |-> status, exitcode |-> exitcode]
    /\ UNCHANGED <<args, budget, test_suites, config, status, exitcode, time_end,
                   time_elapsed, logdir, logfile, tmpdir, base_tmpdir, keep_tmpdir,
                   result, tests_total, logging, fsvars, lpc>>

\* try: self.result.tests_total = self.size
RunTotal ==
    /\ jpc = "run_total"
    /\ \/ /\ tests_total' = Size(test_suites)
          /\ jpc' = "run_dispatcher"
          /\ UNCHANGED exc
       \/ /\ \E e \in Raisable : RunThrow(e)
          /\ UNCHANGED tests_total
    /\ UNCHANGED <<args, budget, test_suites, config, status, exitcode, time_start,
                   time_end, time_elapsed, logdir, logfile, tmpdir, base_tmpdir,
                   keep_tmpdir, result, logging, clock, bound, handled, summary,
                   idx, retval, calls, reported, entry, runs, outcome, fsvars, lpc>>

\* pre_post_dispatcher = dispatcher.JobPrePostDispatcher()
RunDispatcher ==
    /\ jpc = "run_dispatcher"
    /\ \/ /\ bound' = TRUE
          /\ jpc' = "run_pre"
          /\ UNCHANGED exc
       \/ /\ \E e \in Raisable : RunThrow(e)
          /\ UNCHANGED bound
    /\ UNCHANGED <<args, budget, jobvars, clock, handled, summary, idx, retval, calls,
                   reported, entry, runs, outcome, fsvars, lpc>>

\* pre_post_dispatcher.map_method('pre', self)
RunPre ==
    /\ jpc = "run_pre"
    /\ calls' = Append(calls, "pre")
    /\ \/ /\ jpc' = "run_pre_tests"
          /\ UNCHANGED exc
       \/ \E e \in Raisable : RunThrow(e)
    /\ UNCHANGED <<args, budget, jobvars, clock, bound, handled, summary, idx, retval,
                   reported, entry, runs, outcome, fsvars, lpc>>

\* self.pre_tests()
RunPreTests ==
    /\ jpc = "run_pre_tests"
    /\ calls' = Append(calls, "pre_tests")
    /\ \/ /\ jpc' = "run_tests"
          /\ UNCHANGED exc
       \/ \E e \in Raisable : RunThrow(e)
    /\ UNCHANGED <<args, budget, jobvars, clock, bound, handled, summary, idx, retval,
                   reported, entry, runs, outcome, fsvars, lpc>>

\* the promotion of the status comes before the test for an empty list
RunTests_Mutant ==
    /\ jpc = "run_tests"
    /\ \/ /\ IF test_suites = <<>>
             THEN /\ exitcode' = EmptyJobCode(exitcode)
                  /\ retval' = <<exitcode'>>
                  /\ status' = Promote(status)
                  /\ jpc' = "fin_post_tests"
                  /\ UNCHANGED <<summary, idx>>
             ELSE /\ summary' = {}
                  /\ idx' = 1
                  /\ jpc' = "run_suite"
                  /\ UNCHANGED <<exitcode, retval, status>>
          /\ UNCHANGED exc
       \/ /\ \E e \in Raisable : RunThrow(e)
          /\ UNCHANGED <<exitcode, retval, summary, idx, status>>
    /\ UNCHANGED <<args, budget, test_suites, config, time_start, time_end,
                   time_elapsed, logdir, logfile, tmpdir, base_tmpdir, keep_tmpdir,
                   result, tests_total, logging, clock, bound, handled,
                   calls, reported, entry, runs, outcome, fsvars, lpc>>

\* run_tests(), up to its loop: the debug information is logged and the job
\* data recorded (either may raise); without suites JOB_FAIL is set and
\* returned
RunTests ==
    /\ jpc = "run_tests"
    /\ \/ /\ IF test_suites = <<>>
             THEN /\ exitcode' = EmptyJobCode(exitcode)
                  /\ retval' = <<exitcode'>>
                  /\ jpc' = "fin_post_tests"
                  /\ UNCHANGED <<summary, idx>>
             ELSE /\ summary' = {}
                  /\ idx' = 1
                  /\ jpc' = "run_suite"
                  /\ UNCHANGED <<exitcode, retval>>
          /\ UNCHANGED exc
       \/ /\ \E e \in Raisable : RunThrow(e)
          /\ UNCHANGED <<exitcode, retval, summary, idx>>
    /\ UNCHANGED <<args, budget, test_suites, config, status, time_start, time_end,
                   time_elapsed, logdir, logfile, tmpdir, base_tmpdir, keep_tmpdir,
                   result, tests_total, logging, clock, bound, handled,
                   calls, reported, entry, runs, outcome, fsvars, lpc>>

\* a suite's exception is swallowed and the loop goes on
RunSuite_Mutant ==
    /\ jpc = "run_suite"
    /\ calls' = Append(calls, "run:" \o test_suites[idx].name)
    /\ \/ \E T \in TagSets :
             /\ summary' = Accumulate(summary, T)
             /\ reported' = Append(reported, T)
       \/ UNCHANGED <<summary, reported>>
    /\ idx' = idx + 1
    /\ jpc' = IF idx = Len(test_suites) THEN "run_tests_end" ELSE "run_suite"
    /\ UNCHANGED <<args, budget, jobvars, clock, bound, exc, handled, retval, entry,
                   runs, outcome, fsvars, lpc>>

\* run_tests(): summary |= suite.run(self), for the next suite
RunSuite ==
    /\ jpc = "run_suite"
    /\ calls' = Append(calls, "run:" \o test_suites[idx].name)
    /\ \/ /\ \E T \in TagSets :
                /\ summary' = Accumulate(summary, T)
                /\ reported' = Append(reported, T)
          /\ idx' = idx + 1
          /\ jpc' = IF idx = Len(test_suites) THEN "run_tests_end" ELSE "run_suite"
          /\ UNCHANGED exc
       \/ /\ \E e \in Raisable : RunThrow(e)
          /\ UNCHANGED <<summary, idx, reported>>
    /\ UNCHANGED <<args, budget, jobvars, clock, bound, handled, retval, entry, runs,
                   outcome, fsvars, lpc>>

\* run_tests(), after its loop: the status is promoted, the summary's bits
\* are added and the exit code is returned
RunTestsEnd ==
    /\ jpc = "run_tests_end"
    /\ status' = Promote(status)
    /\ exitcode' = SummaryCode(exitcode, summary)
    /\ retval' = <<exitcode'>>
    /\ jpc' = "fin_post_tests"
    /\ UNCHANGED <<args, budget, test_suites, config, time_start, time_end, time_elapsed,
                   logdir, logfile, tmpdir, base_tmpdir, keep_tmpdir, result,
                   tests_total, logging, clock, bound, exc, handled, summary,
                   idx, calls, reported, entry, runs, outcome, fsvars, lpc>>

\* run()'s except clauses
RunExcept ==
    /\ jpc = "run_except"
    /\ status' = HandlerStatus(exc, status)
    /\ exitcode' = HandlerCode(exc, exitcode)
    /\ retval' = <<exitcode'>>
    /\ handled' = exc
    /\ exc' = NoExc
    /\ calls' = Append(calls, "except")
    /\ jpc' = "fin_post_tests"
    /\ UNCHANGED <<args, budget, test_suites, config, time_start, time_end, time_elapsed,
                   logdir, logfile, tmpdir, base_tmpdir, keep_tmpdir, result,
                   tests_total, logging, clock, bound, summary, idx, reported,
                   entry, runs, outcome, fsvars, lpc>>

\* post_tests at the end of the try block: skipped after an exception
FinPostTests_Mutant ==
    /\ jpc = "fin_post_tests"
    /\ IF handled = NoExc
       THEN /\ calls' = Append(calls, "post_tests")
            /\ \/ /\ jpc' = "fin_time"
                  /\ UNCHANGED <<outcome, retval>>
               \/ \E e \in FinRaisable : RunRaise(e)
       ELSE /\ jpc' = "fin_time"
            /\ UNCHANGED <<calls, outcome, retval>>
    /\ UNCHANGED <<args, budget, jobvars, clock, bound, exc, handled, summary, idx,
                   reported, entry, runs, fsvars, lpc>>

\* finally: self.post_tests()
FinPostTests ==
    /\ jpc = "fin_post_tests"
    /\ calls' = Append(calls, "post_tests")
    /\ \/ /\ jpc' = "fin_time"
          /\ UNCHANGED <<outcome, retval>>
       \/ \E e \in FinRaisable : RunRaise(e)
    /\ UNCHANGED <<args, budget, jobvars, clock, bound, exc, handled, summary, idx,
                   reported, entry, runs, fsvars, lpc>>

\* finally: time_end and time_elapsed, if time_end is unset
FinTime ==
    /\ jpc = "fin_time"
    /\ IF TimeUnset(time_end)
       THEN \E t \in Monotonic :
                /\ clock' = t
                /\ time_end' = t
                /\ time_elapsed' = Elapsed(t, time_start)
                /\ calls' = Append(calls, "time_end")
       ELSE UNCHANGED <<clock, time_end, time_elapsed, calls>>
    /\ jpc' = "fin_render"
    /\ UNCHANGED <<args, budget, test_suites, config, status, exitcode, time_start,
                   logdir, logfile, tmpdir, base_tmpdir, keep_tmpdir, result,
                   tests_total, logging, bound, exc, handled, summary, idx,
                   retval, reported, entry, runs, outcome, fsvars, lpc>>

\* finally: self.render_results()
FinRender ==
    /\ jpc = "fin_render"
    /\ calls' = Append(calls, "render_results")
    /\ \/ /\ jpc' = "fin_post"
          /\ UNCHANGED <<outcome, retval>>
       \/ \E e \in FinRaisable : RunRaise(e)
    /\ UNCHANGED <<args, budget, jobvars, clock, bound, exc, handled, summary, idx,
                   reported, entry, runs, fsvars, lpc>>

\* finally: pre_post_dispatcher.map_method('post', self); the local name is
\* unbound when the guarded region raised before assigning it
FinPost ==
    /\ jpc = "fin_post"
    /\ \/ /\ ~bound
          /\ RunRaise(UnboundLocalError)
          /\ UNCHANGED calls
       \/ /\ bound
          /\ calls' = Append(calls, "post")
          /\ jpc' = "idle"
          /\ outcome' = Returned("run")
          /\ UNCHANGED retval
       \/ /\ bound
          /\ calls' = Append(calls, "post")
          /\ \E e \in FinRaisable : RunRaise(e)
    /\ UNCHANGED <<args, budget, jobvars, clock, bound, exc, handled, summary, idx,
                   reported, entry, runs, fsvars, lpc>>

\* ---------------------------------------------------------------- cleanup
\* cleanup(): logging is stopped; the temporary directories are removed when
\* __keep_tmpdir is off (os.path.exists(None) raises TypeError); a dry run
\* removes its base results directory
Cleanup ==
    /\ jpc = "idle"
    /\ logging' = FALSE
    /\ IF ~keep_tmpdir /\ tmpdir = None
       THEN /\ outcome' = Raised("cleanup", TypeError)
            /\ UNCHANGED <<fsvars>>
       ELSE LET kept == IF ~keep_tmpdir /\ tmpdir \in paths
                        THEN paths \ {tmpdir, base_tmpdir} ELSE paths
            IN /\ outcome' = Returned("cleanup")
               /\ IF config.dry_run /\ config.results_dir # None
                  THEN /\ paths' = {}
                       /\ latest' = Absent
                       /\ staging' = [p \in Pids |-> Absent]
                       /\ idfile' = None
                  ELSE /\ paths' = kept
                       /\ UNCHANGED <<latest, staging, idfile>>
    /\ UNCHANGED <<args, budget, jpc, test_suites, config, status, exitcode, time_start,
                   time_end, time_elapsed, logdir, logfile, tmpdir, base_tmpdir,
                   keep_tmpdir, result, tests_total, clock, runvars, lpc>>

\* ---------------------------------------------------------- specification
Next ==
    \/ Construct
    \/ Setup
    \/ SetupResults
    \/ UpdateLatestLink(JobPid)
    \/ SetupLinkReturn
    \/ SetupIdFile
    \/ SetupLogging
    \/ SetupCategory
    \/ SetupBaseTmp
    \/ SetupTmp
    \/ Run
    \/ RunTotal
    \/ RunDispatcher
    \/ RunPre
    \/ RunPreTests
    \/ RunTests
    \/ RunSuite
    \/ RunTestsEnd
    \/ RunExcept
    \/ FinPostTests
    \/ FinTime
    \/ FinRender
    \/ FinPost
    \/ Cleanup

Spec == Init /\ [][Next]_vars

\* Several job processes, each past the creation of its results directory,
\* run _update_latest_link on one base directory.
InitLatest ==
    /\ InitJob
    /\ args = [config |-> DefaultConfig, test_suites |-> <<>>]
    /\ budget = 0
    /\ lpc = [p \in Pids |-> "l_check"]
    /\ latest \in {Absent, Symlink(Basename(0))}
    /\ staging \in [Pids -> {Absent, Symlink(Basename(0))}]
    /\ paths = {Basename(p) : p \in 0..MaxProcs}
    /\ idfile = None

NextLatest == \E p \in Pids : UpdateLatestLink(p)

SpecLatest == InitLatest /\ [][NextLatest]_vars

\* ----------------------------------------------------------------- claims
Flags == {AVOCADO_TESTS_FAIL, AVOCADO_JOB_FAIL, AVOCADO_FAIL, AVOCADO_JOB_INTERRUPTED}
Terminal == {"PASS", "FAIL", "ERROR", "INTERRUPTED"}

Count(seq, x) == Cardinality({i \in 1..Len(seq) : seq[i] = x})
RunCalls == {"run:" \o n : n \in SuiteNames}
SuiteRuns == Cardinality({i \in 1..Len(calls) : calls[i] \in RunCalls})

\* a call of run() that passed its precondition has ended
RunOver ==
    /\ jpc = "idle"
    /\ outcome.op = "run"
    /\ outcome.result \in {"returned", "raised"}
    /\ outcome.exc # AssertionError
RunReturned == RunOver /\ outcome.result = "returned"
\* the call ended with an exception that a step of the finalizer raised
FinHookRaised == RunOver /\ outcome.result = "raised" /\ outcome.exc \in FinRaisable
\* run() is in or past its finalizer
InFinalizer ==
    /\ outcome.op = "run"
    /\ jpc \in {"fin_post_tests", "fin_time", "fin_render", "fin_post", "idle"}
    /\ outcome.exc # AssertionError

\* C1 (as claimed): after setup() completed, whatever the guarded region of
\* a call of run() did (the hooks of the finalizer themselves returning),
\* post_tests, render_results, the 'post' hook and the capture of the end
\* timestamp each happened exactly once and run() returned the exit code.
C1_FinalizerAlwaysCompletes ==
    (RunOver /\ runs = 1 /\ ~FinHookRaised) =>
        /\ Count(calls, "post_tests") = 1
        /\ Count(calls, "render_results") = 1
        /\ Count(calls, "post") = 1
        /\ Count(calls, "time_end") = 1
        /\ outcome.result = "returned"
        /\ retval = <<exitcode>>

\* C2: once an exception that is neither a JobBaseException nor an
\* OptionValidationError, raised by a pre hook, pre_tests or a suite's run
\* (so after the dispatcher was built), has been handled, exitcode has the
\* CRASH bit, status is ERROR and no suite runs after it; post_tests is
\* invoked, and unless a step of the finalizer itself raises, so are
\* render_results and the 'post' hook, and run() returns the exit code.
C2_CrashIsolated ==
    (outcome.op = "run" /\ handled = OtherException /\ bound) =>
        /\ HasBit(exitcode, AVOCADO_FAIL)
        /\ status = "ERROR"
        /\ \A i, j \in 1..Len(calls) :
               (calls[i] = "except" /\ j > i) => calls[j] \notin RunCalls
        /\ SuiteRuns <= Len(reported) + 1
        /\ RunOver =>
               /\ Count(calls, "post_tests") = 1
               /\ ~FinHookRaised =>
                      /\ Count(calls, "render_results") = 1
                      /\ Count(calls, "post") = 1
                      /\ outcome.result = "returned"
                      /\ retval = <<exitcode>>

\* the first of two suites raised: the second never ran, the finalizer did
C2_Witness ==
    /\ RunReturned
    /\ handled = OtherException
    /\ Len(test_suites) = 2
    /\ calls = <<"pre", "pre_tests", "run:" \o test_suites[1].name, "except",
                 "post_tests", "time_end", "render_results", "post">>

\* C3: exitcode starts at OK (zero), and no step of any operation clears a
\* bit that is set.
C3_ExitcodeMonotone ==
    /\ exitcode = AVOCADO_ALL_OK
    /\ [][\A f \in Flags : HasBit(exitcode, f) => HasBit(exitcode', f)]_vars

\* a second run() added a bit to those of the first
C3_Witness ==
    /\ RunOver
    /\ runs = 2
    /\ HasBit(exitcode, AVOCADO_TESTS_FAIL)
    /\ HasBit(exitcode, AVOCADO_JOB_FAIL)

\* C4: when run() returns for a Job without suites whose pre hooks did not
\* fail, the exit code it returns has the JOB_FAIL bit and neither the
\* TESTS_FAIL nor the INTERRUPTED bit, and no suite was run.
C4_NoSuitesJobFail ==
    (RunReturned /\ test_suites = <<>> /\ handled = NoExc) =>
        /\ retval = <<exitcode>>
        /\ HasBit(retval[1], AVOCADO_JOB_FAIL)
        /\ ~HasBit(retval[1], AVOCADO_TESTS_FAIL)
        /\ ~HasBit(retval[1], AVOCADO_JOB_INTERRUPTED)
        /\ SuiteRuns = 0
        /\ reported = <<>>

C4_Witness ==
    /\ RunReturned
    /\ test_suites = <<>>
    /\ handled = NoExc
    /\ retval = <<AVOCADO_JOB_FAIL>>

\* C5 (as claimed): when run() returns for a Job whose suites hold zero
\* tests in total (the guarded region raising nothing), exitcode has the
\* JOB_FAIL bit.
C5_ZeroTestsJobFail ==
    (RunReturned /\ handled = NoExc /\ Size(test_suites) = 0) =>
        HasBit(exitcode, AVOCADO_JOB_FAIL)

PairwiseDistinct(suites) ==
    \A i, j \in 1..Len(suites) : i # j => suites[i].name # suites[j].name

\* C6: the constructor fails with JobTestSuiteDuplicateNameError exactly when
\* two suites share a name, and its step neither sets logdir, logfile or
\* tmpdir nor touches the filesystem (results directory, log file, temporary
\* directories, latest and staging links); no operation follows a failed
\* construction.
C6_DuplicateNamesRejected ==
    /\ [](/\ (jpc = "ctor_failed") =>
                 /\ ~PairwiseDistinct(args.test_suites)
                 /\ outcome = Raised("__init__", JobTestSuiteDuplicateNameError)
                 /\ logdir = None /\ logfile = None /\ tmpdir = None
                 /\ base_tmpdir = None
                 /\ Basename(JobPid) \notin paths
          /\ (jpc \notin {"new", "ctor_failed"}) => PairwiseDistinct(args.test_suites)
          /\ (jpc # "new" /\ PairwiseDistinct(args.test_suites)) => jpc # "ctor_failed")
    /\ [][(jpc = "new" \/ jpc = "ctor_failed") =>
              UNCHANGED <<latest, staging, paths, idfile, logdir, logfile, tmpdir>>]_vars

C6_Witness ==
    /\ jpc = "ctor_failed"
    /\ Len(args.test_suites) = 2
    /\ args.test_suites[1].name = args.test_suites[2].name

\* C7 (as claimed): after a JobBaseException raised in the guarded region
\* was handled (the hooks of the finalizer themselves returning), status is
\* the status the exception carries, exitcode has the JOB_FAIL bit and no
\* CRASH bit it did not have on entry, and run() returned the exit code.
C7_JobFailureReturns ==
    (RunOver /\ handled.kind = "JobBaseException" /\ ~FinHookRaised) =>
        /\ status = handled.status
        /\ HasBit(exitcode, AVOCADO_JOB_FAIL)
        /\ HasBit(exitcode, AVOCADO_FAIL) => HasBit(entry.exitcode, AVOCADO_FAIL)
        /\ outcome.result = "returned"
        /\ retval = <<exitcode>>

SuitesReturned ==
    /\ InFinalizer
    /\ handled = NoExc
    /\ Len(test_suites) >= 1
    /\ Len(reported) = Len(test_suites)
    /\ entry.status = "RUNNING"
Union == UNION {reported[i] : i \in 1..Len(reported)}

ResultDirs == {Basename(p) : p \in 0..MaxProcs}
StagingNames == {ProcLatestName(p) : p \in Pids}

\* C10: while processes with distinct pids update the latest link, the entry
\* at latest is absent (only before it first existed) or a symbolic link to
\* the results directory of the earlier job or of an updating job, never to
\* a staging name; once it is a link it stays one in every step.
C10_LatestAlwaysValid ==
    /\ [](/\ latest.kind \in {"absent", "symlink"}
          /\ latest.kind = "symlink" =>
                 /\ latest.target \in ResultDirs
                 /\ latest.target \notin StagingNames
                 /\ latest.target \in paths)
    /\ [][latest.kind = "symlink" => latest'.kind = "symlink"]_vars

\* one process has moved its link into place, another is about to
C10_Witness ==
    /\ latest = Symlink(Basename(1))
    /\ lpc[2] = "l_rename"
    /\ staging[2] = Symlink(Basename(2))

\* Another process creates a regular file or a directory at the path latest
\* while the updates run: at any moment, also between an update's check of
\* the path and its rename.
ForeignCreate ==
    /\ latest.kind = "absent"
    /\ latest' \in {RegularFile, Directory}
    /\ UNCHANGED <<args, budget, jpc, jobvars, clock, runvars, outcome, staging,
                   paths, idfile, lpc>>

InitForeign ==
    /\ InitJob
    /\ args = [config |-> DefaultConfig, test_suites |-> <<>>]
    /\ budget = 0
    /\ lpc = [p \in Pids |-> "l_check"]
    /\ latest \in {Absent, Symlink(Basename(0)), RegularFile, Directory}
    /\ staging \in [Pids -> {Absent, Symlink(Basename(0))}]
    /\ paths = {Basename(p) : p \in 0..MaxProcs}
    /\ idfile = None

NextForeign ==
    \/ \E p \in Pids : UpdateLatestLink(p)
    \/ ForeignCreate

SpecForeign == InitForeign /\ [][NextForeign]_vars

\* C11 (as claimed): an entry at latest that is a regular file or a
\* directory is still there, unchanged, after every step of every update,
\* whenever it was created.
C11_ForeignEntryKept ==
    [][latest.kind \in {"file", "dir"} => latest' = latest]_vars

\* C12 (as claimed): no step of setup()'s side operations, the update of the
\* latest link and the category link, makes setup() raise or changes
\* exitcode or status, whichever of their filesystem calls fails.
C12_SideOpsNeverRaise ==
    [][(jpc \in {"setup_link", "setup_category"}) =>
           /\ outcome'.result # "raised"
           /\ exitcode' = exitcode
           /\ status' = status]_vars

\* C13: while setup() has not completed (tmpdir is unset) no call of run()
\* got past its assertion: no hook, suite or renderer was invoked and
\* exitcode, status, time_start and time_end have the values the constructor
\* gave them; a call of run() in such a state ends at once with an
\* AssertionError that leaves run(), changing none of them.
C13_RunNeedsSetup ==
    /\ [](tmpdir = None =>
              /\ calls = <<>>
              /\ runs = 0
              /\ exitcode = AVOCADO_ALL_OK
              /\ status \in {None, "RUNNING"}
              /\ time_start = Unset
              /\ time_end = Unset
              /\ outcome.op = "run" => outcome = Raised("run", AssertionError))
    /\ [][(jpc = "idle" /\ tmpdir = None /\ outcome'.op = "run") =>
              /\ outcome' = Raised("run", AssertionError)
              /\ jpc' = "idle"
              /\ UNCHANGED <<exitcode, status, time_start, time_end, time_elapsed, calls>>]_vars

\* run() was called after a setup() that failed at its last step
C13_Witness ==
    /\ outcome = Raised("run", AssertionError)
    /\ tmpdir = None
    /\ base_tmpdir # None
    /\ logdir # None

\* C14 (as claimed): a call of setup() after a setup() that was started (and
\* created the results directory) does not get past setup()'s assertion, and
\* a call of run() after a run() that was started does not get past run()'s:
\* the hooks and suites are not executed a second time.
C14_NoReentry ==
    [][/\ (jpc = "idle" /\ logdir # None) => jpc' # "setup_results"
       /\ (jpc = "idle" /\ runs >= 1) => runs' = runs]_vars

\* C15 (as claimed): a call of cleanup() that follows a setup() that raised,
\* at whichever of its steps and with keep_tmp on or off, returns.
C15_CleanupAfterFailedSetup ==
    [][(/\ jpc = "idle"
        /\ outcome.op = "setup"
        /\ outcome.result = "raised"
        /\ outcome'.op = "cleanup") => outcome'.result = "returned"]_vars

\* C16 (as claimed): after cleanup(), if setup() had created a fresh base
\* temporary directory (keep_tmp off), that directory and the job's
\* temporary directory are gone; if keep_tmp was on, the results directory
\* and the temporary directory inside it are still there.
C16_TmpRemovedIffFresh ==
    outcome.op = "cleanup" =>
        /\ base_tmpdir = "avocado_tmp" =>
               /\ base_tmpdir \notin paths
               /\ tmpdir # None => tmpdir \notin paths
        /\ (config.keep_tmp /\ logdir # None) =>
               /\ logdir \in paths
               /\ tmpdir # None => tmpdir \in paths

\* C17: time_start changes only from -1, in the step of run() that follows
\* its assertion, so once and never again however often run() is entered;
\* time_end and time_elapsed change only from -1, together, in the
\* finalizer's timestamp step, which leaves them alone when time_end is set;
\* time_elapsed is set exactly when time_end is and then equals
\* time_end - time_start; a run() that returned has set all three.
C17_TimestampsOnce ==
    /\ [](/\ (time_elapsed = Unset) <=> (time_end = Unset)
          /\ time_end # Unset =>
                 /\ time_start # Unset
                 /\ time_elapsed = time_end - time_start
          /\ (time_start # Unset) <=> (runs >= 1)
          /\ RunReturned => (time_start # Unset /\ time_end # Unset))
    /\ [][/\ time_start' # time_start =>
                 (time_start = Unset /\ jpc = "idle" /\ jpc' = "run_total")
          /\ (time_end' # time_end \/ time_elapsed' # time_elapsed) =>
                 /\ time_end = Unset
                 /\ time_elapsed = Unset
                 /\ jpc = "fin_time"
                 /\ time_end' # Unset]_vars

\* a second run() went through its finalizer with time_end already set
C17_Witness ==
    /\ RunReturned
    /\ runs = 2
    /\ time_end # Unset
    /\ Count(calls, "time_end") = 0
    /\ Count(calls, "post_tests") = 1

\* a step of process p in which a filesystem call of _update_latest_link
\* failed: the unlink of a stale staging link, symlink, rename, or the
\* final unlink
LinkFails(p) ==
    \/ lpc[p] = "l_unlink_stale" /\ lpc'[p] = "l_done"
    \/ lpc[p] = "l_symlink" /\ lpc'[p] = "l_finally"
    \/ lpc[p] = "l_rename" /\ staging'[p] = staging[p]
    \/ lpc[p] = "l_unlink_final" /\ lpc'[p] = "l_raised"

\* the updates of SpecLatest when no filesystem call fails
NextLatestOK == \E p \in Pids : UpdateLatestLink(p) /\ ~LinkFails(p)

SpecLatestOK == InitLatest /\ [][NextLatestOK]_vars

AllDone == \A p \in Pids : lpc[p] = "l_done"

\* C18: when no filesystem call fails and latest starts absent or as a
\* symbolic link: a rename step of a job installs the link to that job's
\* results directory and nothing else changes latest, so that a job that
\* updates after all the others have finished leaves latest pointing to its
\* own results directory (J1 then J2 gives J2's); and when every update has
\* finished, in whatever interleaving, latest is a symbolic link to the
\* results directory of one of the updating jobs and no staging link is left.
C18_LastWriterWins ==
    /\ [](AllDone =>
              /\ latest.kind = "symlink"
              /\ latest.target \in {Basename(p) : p \in Pids}
              /\ \A p \in Pids : staging[p] = Absent)
    /\ [][/\ \A p \in Pids : (lpc[p] = "l_rename" /\ lpc'[p] # "l_rename") =>
                                 latest' = Symlink(Basename(p))
          /\ latest' # latest => \E p \in Pids : lpc[p] = "l_rename"]_vars
    /\ \A q \in Pids :
           []((lpc[q] = "l_check" /\ \A r \in Pids \ {q} : lpc[r] = "l_done") =>
                  [](lpc[q] = "l_done" => latest = Symlink(Basename(q))))

\* every update has finished and the last rename was that of process 1
C18_Witness ==
    /\ AllDone
    /\ latest = Symlink(Basename(1))
    /\ \A p \in Pids : staging[p] = Absent

\* the suite runs of the current call of run(), in the order they happened
RunCallSeq == SelectSeq(calls, LAMBDA c : c \in RunCalls)

\* C19: in a call of run() the suite runs are those of a prefix of the
\* attached suites, in attachment order (so each at most once, the names
\* being distinct), and at most the last of them raised.  When one raised, no
\* suite is run after it and the exception is in run()'s except clauses:
\* before it is handled status and exitcode are those of run()'s entry, and
\* once it is handled exitcode has no TESTS_FAIL or INTERRUPTED bit it did not
\* have on entry, status is PASS only if it was on entry, and the bit of the
\* exception's class (JOB_FAIL or CRASH) is set.
C19_SuitesInOrder ==
    outcome.op = "run" =>
        /\ Len(RunCallSeq) <= Len(test_suites)
        /\ \A k \in 1..Len(RunCallSeq) : RunCallSeq[k] = "run:" \o test_suites[k].name
        /\ Len(reported) <= SuiteRuns
        /\ SuiteRuns <= Len(reported) + 1
        /\ SuiteRuns = Len(reported) + 1 =>
               /\ jpc \in {"run_except", "fin_post_tests", "fin_time", "fin_render",
                           "fin_post", "idle"}
               /\ jpc = "run_except" =>
                      /\ exc \in Raisable
                      /\ status = entry.status
                      /\ exitcode = entry.exitcode
               /\ jpc # "run_except" =>
                      /\ handled \in Raisable
                      /\ \E i \in 1..(Len(calls) - 1) :
                             /\ calls[i] \in RunCalls
                             /\ calls[i + 1] = "except"
                             /\ \A j \in (i + 1)..Len(calls) : calls[j] \notin RunCalls
                      /\ HasBit(exitcode, AVOCADO_TESTS_FAIL) =>
                             HasBit(entry.exitcode, AVOCADO_TESTS_FAIL)
                      /\ HasBit(exitcode, AVOCADO_JOB_INTERRUPTED) =>
                             HasBit(entry.exitcode, AVOCADO_JOB_INTERRUPTED)
                      /\ status = "PASS" => entry.status = "PASS"
                      /\ IF handled.kind \in {"JobBaseException", "OptionValidationError"}
                         THEN HasBit(exitcode, AVOCADO_JOB_FAIL)
                         ELSE HasBit(exitcode, AVOCADO_FAIL)

\* the first suite reported FAIL, the second raised a JobBaseException: the
\* exit code is JOB_FAIL alone
C19_Witness ==
    /\ RunReturned
    /\ Len(test_suites) = 2
    /\ reported = <<{"FAIL"}>>
    /\ SuiteRuns = 2
    /\ handled.kind = "JobBaseException"
    /\ exitcode = AVOCADO_JOB_FAIL

\* every invocation recorded in calls of a member of A comes before every
\* one of a member of B
Precedes(A, B) ==
    \A i, j \in 1..Len(calls) : (calls[i] \in A /\ calls[j] \in B) => i < j

\* a suite runs only after both pre hooks returned: no handler ran before it
SuitesAfterPreHooks ==
    /\ Precedes({"pre", "pre_tests"}, RunCalls)
    /\ Precedes(RunCalls, {"except"})
    /\ SuiteRuns > 0 =>
           (Len(calls) >= 3 /\ calls[1] = "pre" /\ calls[2] = "pre_tests"
            /\ calls[3] \in RunCalls)

\* C20 (as claimed): in a call of run() every pre hook invocation ('pre',
\* pre_tests) precedes every suite run, no suite runs when a pre hook failed,
\* every suite run precedes every post hook invocation, and every post hook
\* invocation (post_tests, 'post') precedes that of the renderer.
C20_PhaseOrder_Claimed ==
    outcome.op = "run" =>
        /\ SuitesAfterPreHooks
        /\ Precedes(RunCalls, {"post_tests", "post"})
        /\ Precedes({"post_tests", "post"}, {"render_results"})

\* C20 (amended): the same for the pre hooks and the suites; every suite run
\* precedes post_tests, post_tests precedes the renderer, and the renderer
\* precedes the job-level 'post' hook; the renderer is invoked only after
\* post_tests and the 'post' hook only after the renderer, each at most once.
C20_PhaseOrder ==
    outcome.op = "run" =>
        /\ SuitesAfterPreHooks
        /\ Precedes({"pre"}, {"pre_tests"})
        /\ Precedes(RunCalls \cup {"except"}, {"post_tests"})
        /\ Precedes({"post_tests"}, {"time_end", "render_results"})
        /\ Precedes({"time_end"}, {"render_results"})
        /\ Precedes({"render_results"}, {"post"})
        /\ Count(calls, "render_results") > 0 => Count(calls, "post_tests") > 0
        /\ Count(calls, "post") > 0 => Count(calls, "render_results") > 0
        /\ \A c \in {"pre", "pre_tests", "post_tests", "render_results", "post"} :
               Count(calls, c) <= 1

\* a run of two suites in which every phase happened
C20_Witness ==
    /\ RunReturned
    /\ Len(test_suites) = 2
    /\ calls = <<"pre", "pre_tests", "run:" \o test_suites[1].name,
                 "run:" \o test_suites[2].name, "post_tests", "time_end",
                 "render_results", "post">>

\* C21 (as claimed): after an OptionValidationError raised in the guarded
\* region was handled (the hooks of the finalizer themselves returning),
\* exitcode has the JOB_FAIL bit and otherwise the bits it had on entry,
\* status is the status of run()'s entry, and run() returned the exit code.
C21_OptionErrorReturns ==
    (RunOver /\ handled = OptionValidationError /\ ~FinHookRaised) =>
        /\ HasBit(exitcode, AVOCADO_JOB_FAIL)
        /\ \A f \in Flags \ {AVOCADO_JOB_FAIL} :
               HasBit(exitcode, f) <=> HasBit(entry.exitcode, f)
        /\ status = entry.status
        /\ outcome.result = "returned"
        /\ retval = <<exitcode>>

\* C22: whenever tmpdir is set, logdir, logfile, result and the base
\* temporary directory are set; tmpdir is assigned only by the last step of
\* setup(), from unset and with the job logging started, and is never
\* changed afterwards; a setup() that raised at one of its steps has left
\* tmpdir unset.
C22_TmpdirMeansSetupDone ==
    /\ [](/\ tmpdir # None =>
                 /\ logdir # None
                 /\ logfile # None
                 /\ result # None
                 /\ base_tmpdir # None
          /\ (outcome.op = "setup" /\ outcome.result = "running") => tmpdir = None
          /\ (outcome.op = "setup" /\ outcome.result = "raised"
                  /\ outcome.exc # AssertionError) => tmpdir = None)
    /\ [][tmpdir' # tmpdir =>
              /\ tmpdir = None
              /\ jpc = "setup_tmp"
              /\ logging
              /\ outcome' = Returned("setup")]_vars

\* setup() completed with keep_tmp on: the base temporary directory is the
\* results directory
C22_Witness ==
    /\ outcome = Returned("setup")
    /\ tmpdir # None
    /\ config.keep_tmp
    /\ base_tmpdir = logdir
    /\ logging

\* the steps of setup(), the update of the latest link included
SetupSteps == {"setup_results", "setup_link", "setup_idfile", "setup_logging",
               "setup_category", "setup_base_tmp", "setup_tmp"}

\* C23 (as claimed): in every state, if latest is a link to the job's
\* results directory then that directory holds the id file with the job's
\* unique id and a newline; and no step of a dry-run setup() changes latest.
C23_LatestImpliesIdFile ==
    /\ [](latest = Symlink(Basename(JobPid)) => idfile = IdFileContent(JobPid))
    /\ [][(config.dry_run /\ (jpc \in SetupSteps \/ jpc' \in SetupSteps)) =>
              latest' = latest]_vars

\* the last invocation the current call of run() made
LastCall == IF calls = <<>> THEN "" ELSE calls[Len(calls)]

\* C24: a call of run() that ended with post_tests as its last invocation
\* (post_tests raised) has raised that exception, returns no exit code, has
\* invoked neither the renderer nor the 'post' hook and has not sampled the
\* end timestamp, so that time_end and time_elapsed are unset unless an
\* earlier call of run() set them; this also when the guarded region had
\* completed.  One that ended with the renderer as its last invocation has
\* raised (the renderer's exception, or the error of the unbound dispatcher)
\* and has not invoked the 'post' hook.  The renderer is skipped only in the
\* first case, and a call that returned ended with the 'post' hook.
C24_FinalizerNotIsolated ==
    RunOver =>
        /\ LastCall = "post_tests" =>
               /\ outcome.result = "raised"
               /\ outcome.exc \in FinRaisable
               /\ retval = <<>>
               /\ Count(calls, "render_results") = 0
               /\ Count(calls, "post") = 0
               /\ Count(calls, "time_end") = 0
               /\ runs = 1 => (time_end = Unset /\ time_elapsed = Unset)
        /\ LastCall = "render_results" =>
               /\ outcome.result = "raised"
               /\ retval = <<>>
               /\ Count(calls, "post") = 0
               /\ time_end # Unset
        /\ Count(calls, "render_results") = 0 => LastCall = "post_tests"
        /\ outcome.result = "returned" => LastCall = "post"

\* every suite returned, status was promoted, and then post_tests raised
C24_Witness ==
    /\ RunOver
    /\ runs = 1
    /\ handled = NoExc
    /\ Len(reported) = 1
    /\ status = "PASS"
    /\ LastCall = "post_tests"
    /\ outcome = Raised("run", OtherException)
    /\ time_end = Unset

\* C25: status goes from RUNNING to PASS only in the step of run_tests that
\* follows its loop, with at least one suite attached and every suite's run
\* returned; when run() has returned on the path without suites or on the
\* path of a handled OptionValidationError, status is what it was when run()
\* was entered, RUNNING if it was RUNNING.
C25_PromotionOnlyAfterSuites ==
    /\ [][(status = "RUNNING" /\ status' = "PASS") =>
              /\ jpc = "run_tests_end"
              /\ exc = NoExc
              /\ Len(test_suites) >= 1
              /\ Len(reported) = Len(test_suites)]_vars
    /\ []((RunReturned /\ (\/ test_suites = <<>> /\ handled = NoExc
                           \/ handled = OptionValidationError)) =>
              /\ status = entry.status
              /\ status # "PASS" \/ entry.status = "PASS"
              /\ runs = 1 => status = "RUNNING")

\* run() returned after an OptionValidationError of the second suite, the
\* first having returned: status is still RUNNING
C25_Witness ==
    /\ RunReturned
    /\ handled = OptionValidationError
    /\ Len(test_suites) = 2
    /\ Len(reported) = 1
    /\ status = "RUNNING"
    /\ exitcode = AVOCADO_JOB_FAIL

====
